---- MODULE Spec2Model ----
(***************************************************************************)
(* Model of src/main.py: the Streamlit script main() that fetches the       *)
(* captions of a video, splits them into word chunks, asks the completion   *)
(* client for one summary per chunk and for a final report.                 *)
(*                                                                         *)
(* Strings are sequences of parts: a caption is a sequence of characters    *)
(* (a word character or the whitespace character " "), a prompt is the      *)
(* sequence of the literal pieces and interpolated values of its f-string.  *)
(* One script run is a sequence of steps (pc), one per block of main()      *)
(* between two calls to an external collaborator.  st.session_state and     *)
(* the widget values survive from one run to the next; the locals of        *)
(* main() are fresh in every run.                                           *)
(*                                                                         *)
(* The slider of the script offers 1000..10000 words per chunk; the model   *)
(* scales word counts down: the limit ranges over 1..MaxLimit and a caption *)
(* holds at most MaxCaptionLen characters.                                  *)
(***************************************************************************)
EXTENDS Integers, Sequences, FiniteSets, TLC

\* ---------------------------------------------------------------- bounds
MaxCaptionLen == 5
MaxLimit == 3

\* ------------------------------------------------------------- constants
Absent == "<absent>"          \* a key that is not in st.session_state
None == <<"<None>">>          \* Python None returned by the caption source

Models == {"llama3-8b-8192", "mixtral-8x7b-32768", "llama3-70b-8192"}
DefaultModel == "llama3-8b-8192"

Limits == 1..MaxLimit

TrendingUrl(k) ==
  CASE k = "trending1" -> "https://youtu.be/zjkBMFhNj_g"
    [] k = "trending2" -> "https://youtu.be/pBBe1pk8hf4"
    [] k = "trending3" -> "https://youtu.be/c3b-JASoPi0"

TrendingButtons == {"trending1", "trending2", "trending3"}

\* what the user can have typed in the text input
TextInputs == {"", "https://youtu.be/typed"}

\* outcomes of the external collaborators
Chars == {" ", "a"}
Captions == UNION {[1..n -> Chars] : n \in 0..MaxCaptionLen}
VideoData == {"{title: T}"}
Contents == {<<"s1">>, <<" ", "s2", " ">>}
Errors == {"timeout"}
Responses == [ok : {TRUE}, body : Contents] \cup [ok : {FALSE}, body : {<<e>> : e \in Errors}]

\* --------------------------------------------------------- pure helpers
Min(a, b) == IF a < b THEN a ELSE b

\* str.split() without arguments: the maximal runs of non-whitespace
RECURSIVE SplitAcc(_, _, _)
SplitAcc(s, cur, acc) ==
  IF s = <<>>
  THEN IF cur = <<>> THEN acc ELSE Append(acc, cur)
  ELSE IF Head(s) = " "
       THEN SplitAcc(Tail(s), <<>>, IF cur = <<>> THEN acc ELSE Append(acc, cur))
       ELSE SplitAcc(Tail(s), Append(cur, Head(s)), acc)

Split(s) == SplitAcc(s, <<>>, <<>>)

\* " ".join(ws)
RECURSIVE Join(_)
Join(ws) ==
  IF ws = <<>> THEN <<>>
  ELSE IF Len(ws) = 1 THEN ws[1]
  ELSE ws[1] \o <<" ">> \o Join(Tail(ws))

\* str.strip(): drop leading and trailing whitespace
RECURSIVE LStrip(_)
LStrip(s) == IF s # <<>> /\ Head(s) = " " THEN LStrip(Tail(s)) ELSE s

RECURSIVE RStrip(_)
RStrip(s) ==
  IF s # <<>> /\ s[Len(s)] = " " THEN RStrip(SubSeq(s, 1, Len(s) - 1)) ELSE s

Strip(s) == RStrip(LStrip(s))

\* mutant of Slice: the slice words[i : i + limit - 1]
SliceShort(ws, a, b) == SubSeq(ws, a + 1, Min(b - 1, Len(ws)))

\* the Python slice ws[a:b] (0-based, end clamped to len(ws))
Slice(ws, a, b) == SubSeq(ws, a + 1, Min(b, Len(ws)))

\* list(range(0, n, step))
RECURSIVE RangeFrom(_, _, _)
RangeFrom(i, n, step) ==
  IF i >= n THEN <<>> ELSE <<i>> \o RangeFrom(i + step, n, step)

RangeStep(n, step) == RangeFrom(0, n, step)

\* the chunking loop, lines 134-136
ChunkWords(ws, limit) ==
  LET starts == RangeStep(Len(ws), limit)
  IN [k \in 1..Len(starts) |-> Join(Slice(ws, starts[k], starts[k] + limit))]

\* truthiness of the caption value in "if not video_captions"
Truthy(c) == c # None /\ c # <<>>


\* ------------------------------------------------------ prompt building
\* lines 144-145: chunk_info (built for every chunk)
ChunkInfo(vd, chunk) == <<"Video data: ", vd, "\n\n">> \o chunk \o <<"\n\n">>

\* line 149: the prompt of a chunk-level request
ChunkPrompt(chunk) == <<"Summarize the following video captions:\n">> \o chunk

RECURSIVE Flatten(_)
Flatten(ss) == IF ss = <<>> THEN <<>> ELSE Head(ss) \o Flatten(Tail(ss))

\* lines 165-167: the labeled chunk summaries, in enumerate order from 1
RECURSIVE LabeledFrom(_, _)
LabeledFrom(sums, k) ==
  IF k > Len(sums) THEN <<>>
  ELSE <<"Chunk ", ToString(k), ":\n\n">> \o sums[k] \o <<"\n\n", "---\n\n">>
       \o LabeledFrom(sums, k + 1)

\* mutant of Labeled: enumerate without start=1, labels count from 0
LabeledZeroBased(sums) ==
  Flatten([k \in 1..Len(sums) |->
             <<"Chunk ", ToString(k - 1), ":\n\n">> \o sums[k] \o <<"\n\n", "---\n\n">>])

Labeled(sums) == LabeledFrom(sums, 1)

\* lines 162-167: video_info of the multi-chunk path
AggregateInfo(url, vd, sums) ==
  <<"Video URL: ", url, "\n\n", "Video Data: ", vd, "\n\n", "Summaries:\n\n">>
  \o Labeled(sums)

\* line 170: the prompt of the aggregate request
AggregatePrompt(info) == <<"Summarize the following captions:\n">> \o info

\* lines 181-183: video_info of the single-chunk path
DirectInfo(url, vd, captions) ==
  <<"Video URL: ", url, "\n\n", "Video Data: ", vd, "\n\n", "Captions: ">>
  \o captions \o <<"\n\n">>

\* line 186: the prompt of the direct request
DirectPrompt(captions) == <<"Summarize the following video captions:\n">> \o captions

\* mutant of ChunkSummaryOf: the placeholder without the failure detail
ChunkSummaryNoDetail(resp) ==
  IF resp.ok THEN Strip(resp.body) ELSE <<"Error during API call: ">>

\* lines 151-153: the summary of a chunk from the outcome of its request
ChunkSummaryOf(resp) ==
  IF resp.ok THEN Strip(resp.body) ELSE <<"Error during API call: ">> \o resp.body

\* lines 172-174: the report of the multi-chunk path
FinalSummaryOf(resp) ==
  IF resp.ok THEN Strip(resp.body)
  ELSE <<"Error during final summary generation: ">> \o resp.body

\* lines 188-190: the report of the single-chunk path
DirectSummaryOf(resp) ==
  IF resp.ok THEN Strip(resp.body)
  ELSE <<"Error during summary generation: ">> \o resp.body

\* mutant of RequestModel: the default model of get_video_summarizer
RequestDefaultModel(selected, stored) == "llama3-8b-8192"

\* lines 150, 171, 187: the model argument of client.invoke
RequestModel(selected, stored) == selected

\* lines 68-71: st.session_state["llm_model"] after the model check
StoredModelAfter(stored, selected) ==
  IF stored = Absent THEN selected
  ELSE IF stored # selected THEN selected ELSE stored

\* lines 70-72: does the model check call st.rerun()
ModelCheckReruns(stored, selected) == stored # Absent /\ stored # selected

\* mutant of UrlAfterButtons: Generate Summary with an empty input clears the key
UrlClearedOnEmpty(url, button, text) ==
  IF button = "generate" THEN (IF text = "" THEN Absent ELSE text)
  ELSE IF button \in TrendingButtons THEN TrendingUrl(button)
  ELSE url

\* lines 85-96: st.session_state["youtube_url"] after the button checks
UrlAfterButtons(url, button, text) ==
  IF button = "generate" THEN text
  ELSE IF button \in TrendingButtons THEN TrendingUrl(button)
  ELSE url

\* mutant of AfterCaptions: the return of line 124 is missing
AfterCaptionsNoReturn(c) == "chunking"

\* lines 122-124: where the run goes after the captions were read
AfterCaptions(c) == IF ~Truthy(c) THEN "idle" ELSE "chunking"

\* mutant of ChunkBranch: the chunk loop is taken from one chunk on
ChunkBranchFromOne(n) == IF n >= 1 THEN "chunk_loop" ELSE "direct"

\* lines 138, 177: the branch on the number of chunks
ChunkBranch(n) == IF n > 1 THEN "chunk_loop" ELSE "direct"

\* mutant of AfterChunk: the loop stops one chunk early
AfterChunkEarly(i, n) == IF i + 1 < n - 1 THEN "chunk_loop" ELSE "final"

\* line 140: the loop over range(num_chunks), after iteration i
AfterChunk(i, n) == IF i + 1 < n THEN "chunk_loop" ELSE "final"

\* lines 198-199: the Restart button at the end of the script
AfterRestartButton(button) == IF button = "restart" THEN "rerun" ELSE "idle"

\* ----------------------------------------------------------------- state
VARIABLES
  session_llm_model,    \* st.session_state["llm_model"] or Absent
  session_youtube_url,  \* st.session_state["youtube_url"] or Absent
  llm_model,            \* value of the "Select Model" selectbox
  chunker_limit,        \* value of the slider
  video_url,            \* value of the text input
  button,               \* the button that is True in this run, or "none"
  pc,                   \* position of the script run
  video_data,           \* locals of main()
  video_captions,
  words,
  chunks,
  num_chunks,
  chunk_summaries,
  i,
  chunk_info,
  video_info,
  summary,
  requests,             \* the client.invoke calls of this run, in order
  output,               \* what this run has put on the page
  url_pressed           \* was a button that stores a video reference handled:
                        \* "never", in "this_run" or in an "earlier_run"

vars == <<session_llm_model, session_youtube_url, llm_model, chunker_limit,
          video_url, button, pc, video_data, video_captions, words, chunks,
          num_chunks, chunk_summaries, i, chunk_info, video_info, summary,
          requests, output, url_pressed>>

session == <<session_llm_model, session_youtube_url>>
widgets == <<llm_model, chunker_limit, video_url>>
locals == <<video_data, video_captions, words, chunks, num_chunks,
            chunk_summaries, i, chunk_info, video_info, summary>>

\* a script run starts: main() is called with fresh locals and an empty page;
\* a reference stored by the run before is now one of an earlier run
FreshRun ==
  /\ pc' = "start"
  /\ video_data' = Absent
  /\ video_captions' = None
  /\ words' = <<>>
  /\ chunks' = <<>>
  /\ num_chunks' = 0
  /\ chunk_summaries' = <<>>
  /\ i' = 0
  /\ chunk_info' = <<>>
  /\ video_info' = <<>>
  /\ summary' = <<>>
  /\ requests' = <<>>
  /\ output' = {}
  /\ url_pressed' = IF url_pressed = "never" THEN "never" ELSE "earlier_run"

Init ==
  /\ session_llm_model = Absent
  /\ session_youtube_url = Absent
  /\ llm_model = DefaultModel
  /\ chunker_limit \in Limits
  /\ video_url = ""
  /\ button = "none"
  /\ pc = "start"
  /\ video_data = Absent
  /\ video_captions = None
  /\ words = <<>>
  /\ chunks = <<>>
  /\ num_chunks = 0
  /\ chunk_summaries = <<>>
  /\ i = 0
  /\ chunk_info = <<>>
  /\ video_info = <<>>
  /\ summary = <<>>
  /\ requests = <<>>
  /\ output = {}
  /\ url_pressed = "never"

\* ------------------------------------------------- the user's interactions
\* line 64: another model is picked in the selectbox; the script runs again
SelectModel ==
  /\ pc = "idle"
  /\ \E m \in Models \ {llm_model} : llm_model' = m
  /\ button' = "none"
  /\ FreshRun
  /\ UNCHANGED <<session, chunker_limit, video_url>>

\* line 74: the slider is moved
MoveSlider ==
  /\ pc = "idle"
  /\ \E l \in Limits \ {chunker_limit} : chunker_limit' = l
  /\ button' = "none"
  /\ FreshRun
  /\ UNCHANGED <<session, llm_model, video_url>>

\* line 83: the text input is edited
TypeUrl ==
  /\ pc = "idle"
  /\ \E u \in TextInputs \ {video_url} : video_url' = u
  /\ button' = "none"
  /\ FreshRun
  /\ UNCHANGED <<session, llm_model, chunker_limit>>

\* line 84: "Generate Summary" is pressed
PressGenerate ==
  /\ pc = "idle"
  /\ button' = "generate"
  /\ FreshRun
  /\ UNCHANGED <<session, widgets>>

\* lines 89, 92, 95: one of the trending buttons is pressed
PressTrending ==
  /\ pc = "idle"
  /\ \E k \in TrendingButtons : button' = k
  /\ FreshRun
  /\ UNCHANGED <<session, widgets>>

\* line 198: "Restart" is pressed (it is on the page only when the last run
\* reached the end of the script)
PressRestart ==
  /\ pc = "idle"
  /\ "restart_button" \in output
  /\ button' = "restart"
  /\ FreshRun
  /\ UNCHANGED <<session, widgets>>

\* st.rerun(): the run is abandoned and the script starts again with the same
\* widget values and no button pressed
Rerun ==
  /\ pc = "rerun"
  /\ button' = "none"
  /\ FreshRun
  /\ UNCHANGED <<session, widgets>>

\* ------------------------------------------------------ the script main()
\* lines 64-72
ModelCheck ==
  /\ pc = "start"
  /\ session_llm_model' = StoredModelAfter(session_llm_model, llm_model)
  /\ pc' = IF ModelCheckReruns(session_llm_model, llm_model) THEN "rerun" ELSE "widgets"
  /\ UNCHANGED <<session_youtube_url, widgets, button, locals, requests, output,
                 url_pressed>>

\* lines 74-98 and 194-195
Buttons ==
  /\ pc = "widgets"
  /\ session_youtube_url' = UrlAfterButtons(session_youtube_url, button, video_url)
  /\ url_pressed' = IF button \in {"generate"} \cup TrendingButtons /\ url_pressed = "never"
                    THEN "this_run" ELSE url_pressed
  /\ IF session_youtube_url' # Absent
     THEN /\ pc' = "parse"
          /\ output' = output
     ELSE /\ pc' = "restart"
          /\ output' = output \cup {"please_provide"}
  /\ UNCHANGED <<session_llm_model, widgets, button, locals, requests>>

\* lines 99-113
ParseVideo ==
  /\ pc = "parse"
  /\ \E vd \in VideoData : video_data' = vd
  /\ output' = output \cup {"video_data"}
  /\ pc' = "captions"
  /\ UNCHANGED <<session, widgets, button, video_captions, words, chunks,
                 num_chunks, chunk_summaries, i, chunk_info, video_info, summary,
                 requests, url_pressed>>

\* lines 115-124
ReadCaptions ==
  /\ pc = "captions"
  /\ \E c \in Captions \cup {None} : video_captions' = c
  /\ pc' = AfterCaptions(video_captions')
  /\ output' = output \cup {"captions"}
                \cup (IF ~Truthy(video_captions') THEN {"could_not_parse"} ELSE {})
  /\ UNCHANGED <<session, widgets, button, video_data, words, chunks,
                 num_chunks, chunk_summaries, i, chunk_info, video_info, summary,
                 requests, url_pressed>>

\* lines 127-139
ChunkCaptions ==
  /\ pc = "chunking"
  /\ words' = Split(video_captions)
  /\ chunks' = ChunkWords(words', chunker_limit)
  /\ num_chunks' = Len(chunks')
  /\ chunk_summaries' = <<>>
  /\ i' = 0
  /\ pc' = ChunkBranch(num_chunks')
  /\ UNCHANGED <<session, widgets, button, video_data, video_captions,
                 chunk_info, video_info, summary, requests, output, url_pressed>>

\* lines 140-157: one iteration of the loop over the chunks
SummarizeChunk ==
  /\ pc = "chunk_loop"
  /\ i < num_chunks
  /\ chunk_info' = ChunkInfo(video_data, chunks[i + 1])
  /\ \E resp \in Responses :
       /\ requests' = Append(requests,
                        [kind |-> "chunk", index |-> i + 1,
                         prompt |-> ChunkPrompt(chunks[i + 1]),
                         model |-> RequestModel(llm_model, session_llm_model),
                         resp |-> resp])
       /\ chunk_summaries' = Append(chunk_summaries, ChunkSummaryOf(resp))
  /\ i' = i + 1
  /\ pc' = AfterChunk(i, num_chunks)
  /\ UNCHANGED <<session, widgets, button, video_data, video_captions, words,
                 chunks, num_chunks, video_info, summary, output, url_pressed>>

\* lines 159-176
FinalSummary ==
  /\ pc = "final"
  /\ video_info' = AggregateInfo(session_youtube_url, video_data, chunk_summaries)
  /\ \E resp \in Responses :
       /\ requests' = Append(requests,
                        [kind |-> "aggregate", index |-> 0,
                         prompt |-> AggregatePrompt(video_info'),
                         model |-> RequestModel(llm_model, session_llm_model),
                         resp |-> resp])
       /\ summary' = FinalSummaryOf(resp)
  /\ output' = output \cup {"summary"}
  /\ pc' = "restart"
  /\ UNCHANGED <<session, widgets, button, video_data, video_captions, words,
                 chunks, num_chunks, chunk_summaries, i, chunk_info, url_pressed>>

\* lines 177-192
DirectSummary ==
  /\ pc = "direct"
  /\ video_info' = DirectInfo(session_youtube_url, video_data, video_captions)
  /\ \E resp \in Responses :
       /\ requests' = Append(requests,
                        [kind |-> "direct", index |-> 0,
                         prompt |-> DirectPrompt(video_captions),
                         model |-> RequestModel(llm_model, session_llm_model),
                         resp |-> resp])
       /\ summary' = DirectSummaryOf(resp)
  /\ output' = output \cup {"summary"}
  /\ pc' = "restart"
  /\ UNCHANGED <<session, widgets, button, video_data, video_captions, words,
                 chunks, num_chunks, chunk_summaries, i, chunk_info, url_pressed>>

\* lines 197-199
RestartCheck ==
  /\ pc = "restart"
  /\ output' = output \cup {"restart_button"}
  /\ pc' = AfterRestartButton(button)
  /\ UNCHANGED <<session, widgets, button, locals, requests, url_pressed>>

Next ==
  \/ SelectModel
  \/ MoveSlider
  \/ TypeUrl
  \/ PressGenerate
  \/ PressTrending
  \/ PressRestart
  \/ Rerun
  \/ ModelCheck
  \/ Buttons
  \/ ParseVideo
  \/ ReadCaptions
  \/ ChunkCaptions
  \/ SummarizeChunk
  \/ FinalSummary
  \/ DirectSummary
  \/ RestartCheck

Spec == Init /\ [][Next]_vars


\* ------------------------------------------------- vocabulary of the claims
CeilDiv(a, b) == (a + b - 1) \div b

\* the parts of a string
Parts(s) == {s[k] : k \in 1..Len(s)}

\* t occurs in s as a contiguous piece
Embeds(s, t) ==
  \E k \in 0..(Len(s) - Len(t)) : SubSeq(s, k + 1, k + Len(t)) = t

\* the script has run the chunking loop in this run
Chunked == pc \in {"chunk_loop", "final", "direct"} \/ "summary" \in output

\* the run went through summarization and put its report on the page
Summarized == "summary" \in output

\* the script run is over (main() returned or st.rerun() was called)
RunEnded == pc \in {"idle", "rerun"}

\* the run was cut short by the st.rerun() of the model check (line 72)
CutByModelCheck == pc = "rerun" /\ "restart_button" \notin output

\* the requests of this run of one kind
OfKind(kind) == SelectSeq(requests, LAMBDA r : r.kind = kind)

\* what a chunk summary has to be for the outcome of its request
IsSummaryFor(sum, resp) ==
  IF resp.ok
  THEN sum # <<>> /\ " " \notin Parts(sum) /\ Embeds(resp.body, sum)
  ELSE Len(sum) = 2 /\ sum[1] = "Error during API call: " /\ <<sum[2]>> = resp.body

\* C1: the chunking loop turns the words T under the limit L into
\* ceil(len(T)/L) chunks whose words, in chunk order, are T; every chunk but
\* the last holds L words and the last holds len(T) mod L words, or L words
\* when len(T) is a non-zero multiple of L.
C1_Chunking ==
  Chunked =>
    LET T == words
        L == chunker_limit
        N == Len(chunks)
        W == [k \in 1..N |-> Split(chunks[k])]
    IN /\ T = Split(video_captions)
       /\ N = CeilDiv(Len(T), L)
       /\ N = num_chunks
       /\ Flatten(W) = T
       /\ \A k \in 1..(N - 1) : Len(W[k]) = L
       /\ N > 0 => Len(W[N]) = (IF Len(T) % L = 0 THEN L ELSE Len(T) % L)

C1_Witness ==
  /\ Chunked
  /\ Len(words) = 3
  /\ chunker_limit = 2
  /\ Len(chunks) = 2
  /\ Len(chunks[1]) = 3
  /\ Len(chunks[2]) = 1

\* C2: a run that reaches summarization with N > 1 chunks issues exactly N
\* chunk requests, one per chunk and none twice also when one fails, and then
\* exactly one aggregate request; with N = 1 it issues no chunk request and
\* exactly one direct request over the full caption text.
C2_RequestCounts ==
  /\ \A k \in 1..Len(OfKind("chunk")) : OfKind("chunk")[k].index = k
  /\ Len(OfKind("chunk")) <= num_chunks
  /\ Summarized /\ num_chunks > 1 =>
       /\ Len(requests) = num_chunks + 1
       /\ Len(OfKind("chunk")) = num_chunks
       /\ \A k \in 1..num_chunks : requests[k].kind = "chunk"
       /\ requests[num_chunks + 1].kind = "aggregate"
  /\ Summarized /\ num_chunks = 1 =>
       /\ Len(requests) = 1
       /\ requests[1].kind = "direct"
       /\ SubSeq(requests[1].prompt, 2, Len(requests[1].prompt)) = video_captions

C2_Witness ==
  /\ Summarized
  /\ num_chunks = 3
  /\ Len(requests) = 4
  /\ ~requests[1].resp.ok
  /\ ~requests[2].resp.ok

\* C3: with N > 1 the aggregate request is issued only when the summaries of
\* all chunks 1..N are in chunk_summaries; chunk requests are issued one at a
\* time in index order; in the aggregate prompt the entries are labeled
\* "Chunk 1" .. "Chunk N" in that order and entry i is the summary of chunk i.
C3_AggregateAfterAll ==
  /\ \A k \in 1..Len(requests) :
       requests[k].kind = "chunk" =>
         /\ requests[k].index = k
         /\ k <= Len(chunks)
         /\ SubSeq(requests[k].prompt, 2, Len(requests[k].prompt)) = chunks[k]
         /\ k <= Len(chunk_summaries)
         /\ IsSummaryFor(chunk_summaries[k], requests[k].resp)
  /\ Len(chunk_summaries) = Len(OfKind("chunk"))
  /\ pc = "final" => Len(chunk_summaries) = num_chunks
  /\ \A k \in 1..Len(requests) :
       requests[k].kind = "aggregate" =>
         /\ k = num_chunks + 1
         /\ Len(chunk_summaries) = num_chunks
         /\ SubSeq(requests[k].prompt, 9, Len(requests[k].prompt)) =
              Flatten([j \in 1..num_chunks |->
                         <<"Chunk ", ToString(j), ":\n\n">> \o chunk_summaries[j]
                         \o <<"\n\n", "---\n\n">>])

C3_Witness ==
  /\ Len(requests) = 3
  /\ requests[3].kind = "aggregate"
  /\ requests[1].resp.ok
  /\ requests[2].resp.ok
  /\ chunk_summaries[1] # chunk_summaries[2]
  /\ chunks[1] # chunks[2]

\* C4: a failed request does not stop the run.  With N > 1, the summary of a
\* chunk whose request failed is the placeholder with the failure detail, all
\* the other chunks are requested and get their own summary, and the aggregate
\* request runs over all N entries; a failed aggregate or direct request
\* gives a placeholder report.  Every run that issued a request ends with a
\* report on the page.
C4_FailureTolerated ==
  /\ RunEnded /\ requests # <<>> => Summarized
  /\ Summarized /\ num_chunks > 1 =>
       /\ Len(requests) = num_chunks + 1
       /\ \A k \in 1..num_chunks :
            /\ requests[k].kind = "chunk" /\ requests[k].index = k
            /\ requests[k].resp.ok =>
                 chunk_summaries[k] \in {<<"s1">>, <<"s2">>}
            /\ ~requests[k].resp.ok =>
                 chunk_summaries[k] = <<"Error during API call: ">> \o requests[k].resp.body
            /\ Embeds(requests[num_chunks + 1].prompt,
                      <<"Chunk ", ToString(k), ":\n\n">> \o chunk_summaries[k])
       /\ requests[num_chunks + 1].kind = "aggregate"
       /\ ~requests[num_chunks + 1].resp.ok =>
            summary = <<"Error during final summary generation: ">>
                      \o requests[num_chunks + 1].resp.body
  /\ Summarized /\ num_chunks <= 1 =>
       /\ Len(requests) = 1
       /\ ~requests[1].resp.ok =>
            summary = <<"Error during summary generation: ">> \o requests[1].resp.body

C4_Witness ==
  /\ Summarized
  /\ num_chunks = 3
  /\ Len(requests) = 4
  /\ requests[1].resp.ok
  /\ ~requests[2].resp.ok
  /\ requests[3].resp.ok
  /\ requests[4].resp.ok

\* C5: captions that split into no word (empty, or only whitespace) give no
\* chunk, no completion request, and the "could not parse" message.
C5_EmptyTranscript ==
  "captions" \in output /\ video_captions # None /\ Split(video_captions) = <<>> =>
    /\ chunks = <<>>
    /\ requests = <<>>
    /\ RunEnded => "could_not_parse" \in output

\* C6 as stated: at the end of a run that reaches summarization there are as
\* many chunk summaries as chunks, for every number of chunks.
C6_Original == Summarized => Len(chunk_summaries) = Len(chunks)

\* C6 amended: at the end of a run that reaches summarization with N > 1
\* chunks there are N chunk summaries; with N <= 1 there is none.
C6_SummariesPerChunk ==
  Summarized =>
    /\ num_chunks = Len(chunks)
    /\ num_chunks > 1 => Len(chunk_summaries) = Len(chunks)
    /\ num_chunks <= 1 => Len(chunk_summaries) = 0

C6_Witness ==
  /\ Summarized
  /\ Len(chunks) = 3
  /\ Len(chunk_summaries) = 3
  /\ pc = "idle"

\* C7: when the caption source returns nothing, the run writes the fallback
\* message and stops: no chunk, no completion request of any kind.
C7_AbsentCaptions ==
  /\ "captions" \in output /\ video_captions = None => "could_not_parse" \in output
  /\ "could_not_parse" \in output =>
       /\ pc = "idle"
       /\ chunks = <<>> /\ num_chunks = 0
       /\ requests = <<>>
       /\ ~Summarized

C7_Witness ==
  /\ "captions" \in output
  /\ video_captions = None
  /\ "could_not_parse" \in output
  /\ pc = "idle"

\* C8: the prompt of every chunk request embeds the video metadata and the
\* text of its chunk, and the prompt of the direct request is built from the
\* video metadata and the full caption text.
C8_PromptHasContext ==
  \A k \in 1..Len(requests) :
    /\ requests[k].kind = "chunk" =>
         /\ Embeds(requests[k].prompt, chunks[requests[k].index])
         /\ video_data \in Parts(requests[k].prompt)
    /\ requests[k].kind = "direct" =>
         /\ Embeds(requests[k].prompt, video_captions)
         /\ video_data \in Parts(requests[k].prompt)

\* C9: every completion request of a run carries the model selected in the
\* selectbox, which is the model stored in the session; a run that finds the
\* two different stores the selected one and restarts without any request.
C9_OneModel ==
  /\ \A k \in 1..Len(requests) :
       /\ requests[k].model = llm_model
       /\ requests[k].model = session_llm_model
  /\ pc # "start" => session_llm_model = llm_model
  /\ session_llm_model # llm_model => requests = <<>>
  /\ CutByModelCheck => requests = <<>> /\ output = {}

C9_Witness ==
  /\ Len(requests) = 3
  /\ llm_model = "llama3-70b-8192"
  /\ \A k \in 1..3 : requests[k].model = "llama3-70b-8192"

\* C10 as stated: once a button that stores a reference was pressed, every
\* later run has the reference, fetches metadata and captions, runs the
\* summarization again and never shows the "Please provide" prompt.
C10_Original ==
  url_pressed = "earlier_run" =>
    /\ session_youtube_url # Absent
    /\ "please_provide" \notin output
    /\ RunEnded => {"video_data", "captions", "summary"} \subseteq output

\* C10 amended: once a button that stores a reference was pressed, the
\* reference stays present and the prompt is never shown again; every later
\* run that is not cut short by the restart of the model check fetches
\* metadata and captions, and summarizes, from empty collections, exactly
\* when the captions it got are non-empty.
C10_ReferenceKept ==
  /\ url_pressed = "earlier_run" =>
       /\ session_youtube_url # Absent
       /\ "please_provide" \notin output
       /\ RunEnded /\ ~CutByModelCheck =>
            /\ {"video_data", "captions"} \subseteq output
            /\ Summarized <=> Truthy(video_captions)
       /\ CutByModelCheck => output = {}
  /\ pc \in {"start", "widgets", "parse", "captions", "chunking"} =>
       chunks = <<>> /\ chunk_summaries = <<>> /\ requests = <<>>

C10_Witness ==
  /\ url_pressed = "earlier_run"
  /\ session_youtube_url = ""
  /\ button = "none"
  /\ pc = "idle"
  /\ Summarized
  /\ "restart_button" \in output
  /\ llm_model # DefaultModel

====
